---------------------------- MODULE Spec2Model ----------------------------
(***************************************************************************)
(* Model of cuda/src/playground/cudaGraphTest.cu:                          *)
(*   - MemRedAnalysisParser::MemRedAnalysisParser, the constructor that    *)
(*     reads the memory-analysis report into funcNameToKernelInfoMap;      *)
(*   - analyzeGraph, the pass that walks the nodes of a captured graph     *)
(*     and prints the per-argument effects with the node's argument value. *)
(*                                                                         *)
(* The report file is a sequence of characters (one-character strings).    *)
(* The std::ifstream is a read position with its eofbit and failbit; the   *)
(* formatted and unformatted reads are operators on it that follow the     *)
(* C++ library rules (sentry, whitespace skipping, failbit on no input).   *)
(* size_t is kept at its 64 bit width as four 16 bit limbs, int at 32 bit. *)
(***************************************************************************)
EXTENDS Integers, Sequences, FiniteSets, TLC

VARIABLES
    fileExists,               \* whether ANALYSIS_FILE can be opened
    file,                     \* the characters of ANALYSIS_FILE
    report,                   \* the lines the file was written from
    pc,                       \* position of the process in the code
    in,                       \* std::ifstream in: [pos, eof, fail]
    funcName,                 \* constructor local funcName (line 46)
    kernelInfo,               \* constructor local kernelInfo (line 36)
    funcNameToKernelInfoMap,  \* the parser's table (line 30)
    nodes,                    \* what cudaGraphGetNodes returned (line 93)
    i,                        \* loop variable of analyzeGraph (line 95)
    nodeInfo,                 \* analyzeGraph's copy `kernelInfo` (line 110)
    j,                        \* position in nodeInfo.ptrArgInfos (line 114)
    out,                      \* what was written to std::cout
    err,                      \* what was written to std::cerr
    reads                     \* the kernelParams slots read: <<node, index>>

vars == <<fileExists, file, report, pc, in, funcName, kernelInfo,
          funcNameToKernelInfoMap, nodes, i, nodeInfo, j, out, err, reads>>

-----------------------------------------------------------------------------
(* Bounds of the exploration *)

\* most lines (headers and Arg lines) of a generated report
MaxLines == 3

\* most nodes of a captured graph
MaxNodes == 2

-----------------------------------------------------------------------------
(* Characters and strings *)

Str_Function == <<"F","u","n","c","t","i","o","n">>
Str_Arg == <<"A","r","g">>
Str_foo == <<"f","o","o">>
Str_bar == <<"b","a","r">>
Str_baz == <<"b","a","z">>
Str_A == <<"A","M","O">>
Str_B == <<"R","M","W">>
Str_RO == <<"R","O">>
Str_RW == <<"R","W">>

\* std::isspace in the "C" locale, for the characters the reports hold
IsSpace(c) == c \in {" ", "\t", "\n"}

Digits == <<"0","1","2","3","4","5","6","7","8","9">>

IsDigit(c) == \E d \in 1..10 : Digits[d] = c

DigitValue(c) == (CHOOSE d \in 1..10 : Digits[d] = c) - 1

-----------------------------------------------------------------------------
(* size_t: 64 bit unsigned, four 16 bit limbs, limb 1 least significant *)

LimbBase == 2^16

\* a size_t from a small natural (n < 2^31)
SizeT(n) == <<n % LimbBase, n \div LimbBase, 0, 0>>

SizeMax == <<LimbBase - 1, LimbBase - 1, LimbBase - 1, LimbBase - 1>>

\* a - b modulo 2^64
SizeSub(a, b) ==
    LET d1 == a[1] - b[1]
        w1 == IF d1 < 0 THEN 1 ELSE 0
        d2 == a[2] - b[2] - w1
        w2 == IF d2 < 0 THEN 1 ELSE 0
        d3 == a[3] - b[3] - w2
        w3 == IF d3 < 0 THEN 1 ELSE 0
        d4 == a[4] - b[4] - w3
    IN  <<d1 % LimbBase, d2 % LimbBase, d3 % LimbBase, d4 % LimbBase>>

\* a > b
SizeGreater(a, b) ==
    \E k \in 1..4 : a[k] > b[k] /\ \A m \in (k+1)..4 : a[m] = b[m]

\* a * 10 + d, and whether it left the 64 bits
SizeMul10Add(a, d) ==
    LET t1 == a[1] * 10 + d
        t2 == a[2] * 10 + (t1 \div LimbBase)
        t3 == a[3] * 10 + (t2 \div LimbBase)
        t4 == a[4] * 10 + (t3 \div LimbBase)
    IN  [value |-> <<t1 % LimbBase, t2 % LimbBase, t3 % LimbBase, t4 % LimbBase>>,
         overflow |-> (t4 \div LimbBase) # 0]

\* the natural a small size_t holds (upper limbs zero, below 2^31)
SizeToNat(a) == a[2] * LimbBase + a[1]

\* conversion size_t -> int: the low 32 bits, read as two's complement
SizeToInt(a) ==
    IF a[2] >= LimbBase \div 2
    THEN (a[2] - LimbBase) * LimbBase + a[1]
    ELSE a[2] * LimbBase + a[1]

-----------------------------------------------------------------------------
(* The report text.  A report is written line by line in the format the     *)
(* comments at lines 39, 52 and 58 of the source show:                      *)
(*     Function ... (@<name>):                                              *)
(*     Memory Effect: <tag>                                                 *)
(*     Arg #<index>:<TAB>Effect: <tag>  Capture: No                         *)
(* A line of the model is a record; kind "hdr" is the two header lines of   *)
(* a block, kind "arg" an Arg line.  The other kinds are lines that depart  *)
(* from the format: "nokw" an Arg line without its Arg keyword, "badidx"    *)
(* an Arg line whose index is not a number, "shorthdr" a header whose token *)
(* after '@' has one character.  Kind "argdigits" is an Arg line whose      *)
(* index is written out digit by digit (field name), for the indices that   *)
(* are too large for the naturals of the other lines.                       *)

Line(kind, name, tag, index) ==
    [kind |-> kind, name |-> name, tag |-> tag, index |-> index]

\* the decimal digits of a natural number
RECURSIVE Dec(_)
Dec(n) ==
    IF n < 10 THEN <<Digits[n + 1]>>
    ELSE Append(Dec(n \div 10), Digits[(n % 10) + 1])

RenderArgTail(tag) ==
    <<":", "\t", "E","f","f","e","c","t",":", " ">> \o tag
        \o <<" ", " ", "C","a","p","t","u","r","e",":", " ", "N","o", "\n">>

RenderMemoryEffect(tag) ==
    <<"M","e","m","o","r","y", " ", "E","f","f","e","c","t",":", " ">>
        \o tag \o <<"\n">>

RenderLine(l) ==
    CASE l.kind = "hdr" ->
            Str_Function \o <<" ", "(", "@">> \o l.name \o <<")", ":", "\n">>
                \o RenderMemoryEffect(l.tag)
      [] l.kind = "shorthdr" ->
            Str_Function \o <<" ", "(", "@", ")", "\n">>
                \o RenderMemoryEffect(l.tag)
      [] l.kind = "arg" ->
            Str_Arg \o <<" ", "#">> \o Dec(l.index) \o RenderArgTail(l.tag)
      [] l.kind = "argdigits" ->
            Str_Arg \o <<" ", "#">> \o l.name \o RenderArgTail(l.tag)
      [] l.kind = "nokw" ->
            <<"#">> \o Dec(l.index) \o RenderArgTail(l.tag)
      [] l.kind = "badidx" ->
            Str_Arg \o <<" ", "#", "x">> \o RenderArgTail(l.tag)

RECURSIVE Render(_)
Render(ls) ==
    IF ls = <<>> THEN <<>> ELSE RenderLine(Head(ls)) \o Render(Tail(ls))

\* the lines reports are written from
GoodLines ==
    { Line("hdr", Str_foo, Str_A, 0), Line("hdr", Str_bar, Str_B, 0),
      Line("hdr", Str_foo, Str_B, 0),
      Line("arg", <<>>, Str_RO, 3), Line("arg", <<>>, Str_RW, 4),
      Line("arg", <<>>, Str_RO, 12), Line("arg", <<>>, Str_RO, 0) }

BadLines ==
    { Line("nokw", <<>>, Str_RW, 4), Line("badidx", <<>>, Str_RO, 0),
      Line("shorthdr", <<>>, Str_A, 0) }

LinePool == GoodLines \cup BadLines

RECURSIVE SeqsUpTo(_, _)
SeqsUpTo(S, n) ==
    IF n = 0 THEN {<<>>}
    ELSE LET shorter == SeqsUpTo(S, n - 1)
         IN  shorter \cup { Append(s, x) : s \in shorter, x \in S }

\* the report whose every proper prefix is also an input: a file cut short
TruncBase ==
    << Line("hdr", Str_foo, Str_A, 0), Line("arg", <<>>, Str_RO, 3),
       Line("hdr", Str_bar, Str_B, 0), Line("arg", <<>>, Str_RW, 4) >>

\* indices at and above 2^31, and one past the 64 bits of size_t:
\* 2^31, 2^32 - 1, 2^32 + 3, 2^64
LargeIndices ==
    { <<"2","1","4","7","4","8","3","6","4","8">>,
      <<"4","2","9","4","9","6","7","2","9","5">>,
      <<"4","2","9","4","9","6","7","2","9","9">>,
      <<"1","8","4","4","6","7","4","4","0","7","3","7","0","9","5","5","1","6","1","6">> }

\* the reports of one block with one Arg line of a large index
LargeIndexReports ==
    { << Line("hdr", Str_foo, Str_A, 0), Line("argdigits", d, Str_RO, 0) >> :
        d \in LargeIndices }

\* an input: the lines, and how many characters of their text the file keeps
Inputs ==
    { [lines |-> ls, keep |-> Len(Render(ls))] : ls \in SeqsUpTo(LinePool, MaxLines) }
    \cup { [lines |-> TruncBase, keep |-> n] : n \in 0..(Len(Render(TruncBase)) - 1) }
    \cup { [lines |-> ls, keep |-> Len(Render(ls))] : ls \in LargeIndexReports }

FileOf(r) == SubSeq(Render(r.lines), 1, r.keep)

\* no report: the file that does not exist, the file no longer looked at
NoReport == [lines |-> <<>>, keep |-> 0]

-----------------------------------------------------------------------------
(* std::ifstream.  pos is the index of the next character to read.  *)

Stream(pos, eof, fail) == [pos |-> pos, eof |-> eof, fail |-> fail]

\* std::ifstream in(path): failbit when the file cannot be opened (line 33)
OpenStream(exists) == Stream(1, FALSE, ~exists)

\* operator bool / operator! of the stream: fail() (lines 35, 43, 44, 62)
Ok(s) == ~s.fail

\* good(): what a sentry requires
Good(s) == ~s.fail /\ ~s.eof

RECURSIVE SkipWs(_, _)
SkipWs(text, p) ==
    IF p <= Len(text) /\ IsSpace(text[p]) THEN SkipWs(text, p + 1) ELSE p

RECURSIVE TokenEnd(_, _)
TokenEnd(text, p) ==
    IF p <= Len(text) /\ ~IsSpace(text[p]) THEN TokenEnd(text, p + 1) ELSE p

RECURSIVE DigitsEnd(_, _)
DigitsEnd(text, p) ==
    IF p <= Len(text) /\ IsDigit(text[p]) THEN DigitsEnd(text, p + 1) ELSE p

\* in.read(&ch, 1): an unformatted read of one character (lines 42, 68, 69).
\* got is FALSE when nothing was stored in ch.
ReadChar(text, s) ==
    IF ~Good(s) THEN [s |-> Stream(s.pos, s.eof, TRUE), got |-> FALSE, ch |-> ""]
    ELSE IF s.pos > Len(text)
         THEN [s |-> Stream(s.pos, TRUE, TRUE), got |-> FALSE, ch |-> ""]
         ELSE [s |-> Stream(s.pos + 1, FALSE, FALSE), got |-> TRUE, ch |-> text[s.pos]]

\* in >> str for a std::string (lines 47, 54, 61, 77): skips whitespace, then
\* takes the characters up to the next whitespace.  got is FALSE when the
\* sentry failed, and then str is left as it was.
ReadToken(text, s) ==
    IF ~Good(s) THEN [s |-> Stream(s.pos, s.eof, TRUE), got |-> FALSE, str |-> <<>>]
    ELSE LET q == SkipWs(text, s.pos) IN
         IF q > Len(text)
         THEN [s |-> Stream(q, TRUE, TRUE), got |-> FALSE, str |-> <<>>]
         ELSE LET e == TokenEnd(text, q) IN
              [s |-> Stream(e, e > Len(text), FALSE), got |-> TRUE,
               str |-> SubSeq(text, q, e - 1)]

\* the value of a run of decimal digits, as std::num_get computes it for an
\* unsigned type: the maximum, and failure, when it leaves the type
RECURSIVE ParseDigits(_, _, _, _)
ParseDigits(text, p, e, acc) ==
    IF p >= e THEN acc
    ELSE LET m == SizeMul10Add(acc.value, DigitValue(text[p])) IN
         ParseDigits(text, p + 1, e,
                     IF acc.overflow \/ m.overflow
                     THEN [value |-> SizeMax, overflow |-> TRUE]
                     ELSE m)

\* in >> argumentIndex for a size_t (line 72): zero and failbit when no
\* digit is there (nothing is consumed then).  When the sentry fails (the
\* stream is not good, or only white space is left) the variable is not
\* written at all: set is FALSE and value is not to be looked at.
ReadSizeT(text, s) ==
    IF ~Good(s)
    THEN [s |-> Stream(s.pos, s.eof, TRUE), value |-> SizeT(0), set |-> FALSE]
    ELSE LET q == SkipWs(text, s.pos) IN
         IF q > Len(text)
         THEN [s |-> Stream(q, TRUE, TRUE), value |-> SizeT(0), set |-> FALSE]
         ELSE LET e == DigitsEnd(text, q)
                  n == ParseDigits(text, q, e, [value |-> SizeT(0), overflow |-> FALSE])
              IN  IF e = q
                  THEN [s |-> Stream(q, FALSE, TRUE), value |-> SizeT(0), set |-> TRUE]
                  ELSE [s |-> Stream(e, e > Len(text), n.overflow),
                        value |-> n.value, set |-> TRUE]

\* what the int made from `size_t argumentIndex;` (line 71, no initializer)
\* can be when the extraction did not write it: any value
Indeterminate == {0, -1}

\* the index line 79 stores: the parsed size_t narrowed to int by the pair
StoredIndexOutcomes(n) == IF n.set THEN {SizeToInt(n.value)} ELSE Indeterminate

-----------------------------------------------------------------------------
(* MemRedAnalysisParser::MemRedAnalysisParser (lines 32-84) *)

EmptyKernelInfo == [funcName |-> <<>>, memoryEffect |-> <<>>, ptrArgInfos |-> <<>>]

NoStream == Stream(0, FALSE, FALSE)

\* a slip in ScanForAt: the failed read at the end of the input is forgotten
RECURSIVE ScanForAt_ClearFail(_, _)
ScanForAt_ClearFail(text, s) ==
    LET r == ReadChar(text, s) IN
    IF Ok(r.s) /\ r.ch # "@" THEN ScanForAt_ClearFail(text, r.s)
    ELSE Stream(r.s.pos, r.s.eof, FALSE)

\* do { in.read(&ch, 1); } while (in && ch != '@');   (lines 41-43)
RECURSIVE ScanForAt(_, _)
ScanForAt(text, s) ==
    LET r == ReadChar(text, s) IN
    IF Ok(r.s) /\ r.ch # "@" THEN ScanForAt(text, r.s) ELSE r.s

\* a slip in EraseFrom: a position past the end erases nothing, no throw
EraseFrom_NoThrow(str, pos) ==
    IF SizeGreater(pos, SizeT(Len(str)))
    THEN [thrown |-> FALSE, str |-> str]
    ELSE [thrown |-> FALSE, str |-> SubSeq(str, 1, SizeToNat(pos))]

\* std::string::erase(pos): throws std::out_of_range when pos > size(),
\* else keeps the first pos characters
EraseFrom(str, pos) ==
    IF SizeGreater(pos, SizeT(Len(str)))
    THEN [thrown |-> TRUE, str |-> str]
    ELSE [thrown |-> FALSE, str |-> SubSeq(str, 1, SizeToNat(pos))]

\* a slip in StripName: one character stripped, not two
StripName_OneChar(token) ==
    IF token = <<>> THEN [thrown |-> TRUE, str |-> token]
    ELSE [thrown |-> FALSE, str |-> SubSeq(token, 1, Len(token) - 1)]

\* funcName.erase(funcName.size() - 2): the subtraction is in size_t (line 48)
StripName(token) == EraseFrom(token, SizeSub(SizeT(Len(token)), SizeT(2)))

\* a slip in MapPut: std::map::insert, which keeps an entry already there
MapPut_KeepFirst(m, key, info) ==
    IF key \in DOMAIN m THEN m
    ELSE [k \in (DOMAIN m) \cup {key} |-> IF k = key THEN info ELSE m[k]]

\* funcNameToKernelInfoMap[key] = info: std::map assignment (line 82)
MapPut(m, key, info) ==
    [k \in (DOMAIN m) \cup {key} |-> IF k = key THEN info ELSE m[k]]

\* a slip in KeywordBranch: an unknown token ends the block like "Function"
KeywordBranch_Lenient(kw, s) ==
    IF kw = Str_Arg /\ Ok(s) THEN "arg" ELSE "insert"

\* a slip in KeywordBranch: the failed stream is not looked at, and what
\* is not "Function" goes on as an Arg line
KeywordBranch_NoFailExit(kw, s) ==
    IF kw = Str_Function THEN "insert"
    ELSE IF kw # Str_Arg /\ Ok(s) THEN "parse_abort"
    ELSE "arg"

\* what line 62 and line 64 decide from the token read at line 61
KeywordBranch(kw, s) ==
    IF kw = Str_Function \/ ~Ok(s) THEN "insert"
    ELSE IF kw # Str_Arg THEN "parse_abort"
    ELSE "arg"

\* std::ifstream in(ANALYSIS_FILE.data()); std::string ignore;  (lines 33-34)
OpenReport ==
    /\ pc = "start"
    /\ in' = OpenStream(fileExists)
    /\ pc' = "outer"
    /\ UNCHANGED <<fileExists, file, report, funcName, kernelInfo,
                   funcNameToKernelInfoMap, nodes, i, nodeInfo, j, out, err, reads>>

\* while (in) { KernelInfo kernelInfo; ... scan to '@' ...; if (!in) break;
\* (lines 35-44).  Leaving the loop ends the constructor: its locals go.
ScanBlock ==
    /\ pc = "outer"
    /\ LET s == IF Ok(in) THEN ScanForAt(file, in) ELSE in IN
       IF Ok(s)
       THEN /\ in' = s
            /\ kernelInfo' = EmptyKernelInfo
            /\ funcName' = <<>>
            /\ pc' = "name"
       ELSE /\ in' = NoStream
            /\ kernelInfo' = EmptyKernelInfo
            /\ funcName' = <<>>
            /\ pc' = "constructed"
    /\ UNCHANGED <<fileExists, file, report, funcNameToKernelInfoMap,
                   nodes, i, nodeInfo, j, out, err, reads>>

\* in >> funcName; funcName.erase(funcName.size() - 2);
\* kernelInfo.funcName = funcName;   (lines 46-49)
\* The std::out_of_range of erase is caught nowhere: the process terminates.
ReadFuncName ==
    /\ pc = "name"
    /\ LET r == ReadToken(file, in)
           e == StripName(r.str)
       IN  /\ in' = r.s
           /\ IF e.thrown
              THEN /\ pc' = "terminated"
                   /\ UNCHANGED <<funcName, kernelInfo>>
              ELSE /\ funcName' = e.str
                   /\ kernelInfo' = [kernelInfo EXCEPT !.funcName = e.str]
                   /\ pc' = "effect"
    /\ UNCHANGED <<fileExists, file, report, funcNameToKernelInfoMap,
                   nodes, i, nodeInfo, j, out, err, reads>>

\* in >> ignore >> ignore >> memoryEffect; kernelInfo.memoryEffect = ...
\* (lines 53-55)
ReadMemoryEffect ==
    /\ pc = "effect"
    /\ LET r1 == ReadToken(file, in)
           r2 == ReadToken(file, r1.s)
           r3 == ReadToken(file, r2.s)
       IN  /\ in' = r3.s
           /\ kernelInfo' = [kernelInfo EXCEPT !.memoryEffect = r3.str]
    /\ pc' = "keyword"
    /\ UNCHANGED <<fileExists, file, report, funcName, funcNameToKernelInfoMap,
                   nodes, i, nodeInfo, j, out, err, reads>>

\* in >> argumentKeyword; break on "Function" or a failed stream; abort()
\* on anything but "Arg"   (lines 60-66)
ReadKeyword ==
    /\ pc = "keyword"
    /\ LET r == ReadToken(file, in)
       IN  /\ in' = r.s
           /\ pc' = KeywordBranch(r.str, r.s)
    /\ UNCHANGED <<fileExists, file, report, funcName, kernelInfo,
                   funcNameToKernelInfoMap, nodes, i, nodeInfo, j, out, err, reads>>

\* a slip in ReadArg: one more token is discarded at the end of the line
ReadArg_SixTokens ==
    /\ pc = "arg"
    /\ LET c1 == ReadChar(file, in)
           c2 == ReadChar(file, c1.s)
           n  == ReadSizeT(file, c2.s)
           t1 == ReadToken(file, n.s)
           t2 == ReadToken(file, t1.s)
           t3 == ReadToken(file, t2.s)
           t4 == ReadToken(file, t3.s)
           t5 == ReadToken(file, t4.s)
           t6 == ReadToken(file, t5.s)
       IN  /\ in' = t6.s
           /\ \E idx \in StoredIndexOutcomes(n) :
                kernelInfo' =
                  [kernelInfo EXCEPT !.ptrArgInfos =
                      Append(@, [index |-> idx, effect |-> t3.str])]
    /\ pc' = "keyword"
    /\ UNCHANGED <<fileExists, file, report, funcName, funcNameToKernelInfoMap,
                   nodes, i, nodeInfo, j, out, err, reads>>

\* in.read(&ch, 1) twice; in >> argumentIndex;
\* in >> ignore >> ignore >> ptrArgEffect >> ignore >> ignore;
\* kernelInfo.ptrArgInfos.push_back({argumentIndex, ptrArgEffect});
\* (lines 68-79).  The pair holds an int: the size_t is converted.
ReadArg ==
    /\ pc = "arg"
    /\ LET c1 == ReadChar(file, in)
           c2 == ReadChar(file, c1.s)
           n  == ReadSizeT(file, c2.s)
           t1 == ReadToken(file, n.s)
           t2 == ReadToken(file, t1.s)
           t3 == ReadToken(file, t2.s)
           t4 == ReadToken(file, t3.s)
           t5 == ReadToken(file, t4.s)
       IN  /\ in' = t5.s
           /\ \E idx \in StoredIndexOutcomes(n) :
                kernelInfo' =
                  [kernelInfo EXCEPT !.ptrArgInfos =
                      Append(@, [index |-> idx, effect |-> t3.str])]
    /\ pc' = "keyword"
    /\ UNCHANGED <<fileExists, file, report, funcName, funcNameToKernelInfoMap,
                   nodes, i, nodeInfo, j, out, err, reads>>

\* funcNameToKernelInfoMap[funcName] = kernelInfo;   (line 82)
InsertKernelInfo ==
    /\ pc = "insert"
    /\ funcNameToKernelInfoMap' = MapPut(funcNameToKernelInfoMap, funcName, kernelInfo)
    /\ pc' = "outer"
    /\ UNCHANGED <<fileExists, file, report, in, funcName, kernelInfo,
                   nodes, i, nodeInfo, j, out, err, reads>>

-----------------------------------------------------------------------------
(* The captured graph.  main (lines 129-146) captures launches of the      *)
(* kernel foo(int a, char b, long long c, int *x, int *y) with the         *)
(* arguments (1, 2, 3, x, y); kernelParams[k] points at the storage of     *)
(* argument k.  A node of the model carries the name cudaFuncGetName       *)
(* resolves for it; the runtime calls themselves succeed.                  *)

\* the parameters of a kernel node: those of foo (line 123)
NumParams == 5

\* values in memory: an integer, the address an allocation returned
\* (n-th cudaMallocManaged of main, lines 131-132), or bits of no meaning
IntValue(n) == [kind |-> "int", n |-> n]

Address(n) == [kind |-> "addr", n |-> n]

Junk == [kind |-> "junk", n |-> 0]

\* the storage kernelParams[k] points at: its width in bytes and its value,
\* for the launch foo<<<1, 1, 0, s>>>(1, 2, 3, x, y)  (lines 123, 141)
ArgStorage(k) ==
    CASE k = 0 -> [bytes |-> 4, value |-> IntValue(1)]
      [] k = 1 -> [bytes |-> 1, value |-> IntValue(2)]
      [] k = 2 -> [bytes |-> 8, value |-> IntValue(3)]
      [] k = 3 -> [bytes |-> 8, value |-> Address(1)]
      [] k = 4 -> [bytes |-> 8, value |-> Address(2)]

\* the integers behind the pointers: *x = 0; *y = 1;  (lines 135-136)
Pointee(a) == IF a = Address(1) THEN IntValue(0) ELSE IntValue(1)

IsPointerSlot(k) == k \in {3, 4}

\* what a read outside an object can yield: a valid pointer, or anything else
AnyValue == {Address(1), Junk}

\* a slip in ArgValueOutcomes: the pointer read from the slot is followed
\* and the integer behind it is the value
ArgValueOutcomes_Deref(index) ==
    IF index \in 0..(NumParams - 1)
    THEN IF IsPointerSlot(index)
         THEN {[fault |-> FALSE, value |-> Pointee(ArgStorage(index).value)]}
         ELSE {[fault |-> FALSE, value |-> v] : v \in AnyValue}
    ELSE {[fault |-> TRUE, value |-> Junk]}
            \cup {[fault |-> FALSE, value |-> v] : v \in AnyValue}

\* *static_cast<int **>(params.kernelParams[index])  (line 117): the set of
\* outcomes.  The slot's storage is read as one pointer (8 bytes); the
\* pointer read is printed, not followed.  An index outside the array, or
\* storage narrower than a pointer, is undefined behaviour: any value, and
\* for a wild kernelParams[index] a fault.
ArgValueOutcomes(index) ==
    IF index \in 0..(NumParams - 1)
    THEN IF ArgStorage(index).bytes = 8
         THEN {[fault |-> FALSE, value |-> ArgStorage(index).value]}
         ELSE {[fault |-> FALSE, value |-> v] : v \in AnyValue}
    ELSE {[fault |-> TRUE, value |-> Junk]}
            \cup {[fault |-> FALSE, value |-> v] : v \in AnyValue}

NodeNames == {Str_foo, Str_bar, Str_baz}

Graphs == SeqsUpTo({[func |-> n] : n \in NodeNames}, MaxNodes)

\* a slip in Missing: the lookup is not made
Missing_Never(m, s) == FALSE

\* std::map::count(s) == 0   (line 105)
Missing(m, s) == s \notin DOMAIN m

\* the map after std::map::operator[](s): a missing key is inserted with a
\* default KernelInfo  (line 110)
MapIndex(m, s) == IF s \in DOMAIN m THEN m ELSE MapPut(m, s, EmptyKernelInfo)

OutNode(ord) == [kind |-> "node", ord |-> ord]

OutFunc(name) == [kind |-> "func", name |-> name]

OutArg(index, effect, value) ==
    [kind |-> "arg", index |-> index, effect |-> effect, value |-> value]

-----------------------------------------------------------------------------
(* analyzeGraph (lines 87-121) *)

\* cudaGraphGetNodes, twice: the count, then the nodes  (lines 90-93).
\* The constructor has returned and closed the report, which nothing reads
\* again: from here on the model keeps of it only whether it could be opened.
GetNodes ==
    /\ pc = "constructed"
    /\ \E g \in Graphs : nodes' = g
    /\ i' = 0
    /\ pc' = "node"
    /\ report' = NoReport
    /\ file' = <<>>
    /\ UNCHANGED <<fileExists, in, funcName, kernelInfo,
                   funcNameToKernelInfoMap, nodeInfo, j, out, err, reads>>

\* one iteration of the node loop up to the argument loop: print the
\* ordinal, resolve the name, abort() when the table has no such kernel
\* (after writing its name to std::cerr), else copy the entry and print its
\* name  (lines 95-112)
BeginNode ==
    /\ pc = "node"
    /\ i < Len(nodes)
    /\ LET s == nodes[i + 1].func IN
       IF Missing(funcNameToKernelInfoMap, s)
       THEN /\ out' = Append(out, OutNode(i))
            /\ err' = Append(err, s)
            /\ pc' = "unknown_abort"
            /\ UNCHANGED <<funcNameToKernelInfoMap, nodeInfo, j>>
       ELSE /\ funcNameToKernelInfoMap' = MapIndex(funcNameToKernelInfoMap, s)
            /\ nodeInfo' = MapIndex(funcNameToKernelInfoMap, s)[s]
            /\ out' = out \o <<OutNode(i),
                                OutFunc(MapIndex(funcNameToKernelInfoMap, s)[s].funcName)>>
            /\ j' = 1
            /\ pc' = "args"
            /\ err' = err
    /\ UNCHANGED <<fileExists, file, report, in, funcName, kernelInfo,
                   nodes, i, reads>>

\* one iteration of the argument loop: read the slot and print the line
\* (lines 114-119).  A fault ends the process before the line is written.
PrintArg ==
    /\ pc = "args"
    /\ j <= Len(nodeInfo.ptrArgInfos)
    /\ LET p == nodeInfo.ptrArgInfos[j] IN
       /\ reads' = reads \cup {<<i, p.index>>}
       /\ \E o \in ArgValueOutcomes(p.index) :
            IF o.fault
            THEN /\ pc' = "fault"
                 /\ UNCHANGED <<out, j>>
            ELSE /\ out' = Append(out, OutArg(p.index, p.effect, o.value))
                 /\ j' = j + 1
                 /\ pc' = "args"
    /\ UNCHANGED <<fileExists, file, report, in, funcName, kernelInfo,
                   funcNameToKernelInfoMap, nodes, i, nodeInfo, err>>

\* the argument loop is over: i++  (lines 95, 120)
EndNode ==
    /\ pc = "args"
    /\ j > Len(nodeInfo.ptrArgInfos)
    /\ i' = i + 1
    /\ pc' = "node"
    /\ UNCHANGED <<fileExists, file, report, in, funcName, kernelInfo,
                   funcNameToKernelInfoMap, nodes, nodeInfo, j, out, err, reads>>

\* i == numNodes: analyzeGraph returns, main returns 0  (lines 95, 121, 148)
Return ==
    /\ pc = "node"
    /\ i >= Len(nodes)
    /\ pc' = "done"
    /\ UNCHANGED <<fileExists, file, report, in, funcName, kernelInfo,
                   funcNameToKernelInfoMap, nodes, i, nodeInfo, j, out, err, reads>>

-----------------------------------------------------------------------------
(* The process: analyzeGraph constructs the parser, then walks the graph *)

Init ==
    /\ \/ fileExists = TRUE /\ report \in Inputs
       \/ fileExists = FALSE /\ report = NoReport
    /\ file = FileOf(report)
    /\ pc = "start"
    /\ in = NoStream
    /\ funcName = <<>>
    /\ kernelInfo = EmptyKernelInfo
    /\ funcNameToKernelInfoMap = <<>>
    /\ nodes = <<>>
    /\ i = 0
    /\ nodeInfo = EmptyKernelInfo
    /\ j = 1
    /\ out = <<>>
    /\ err = <<>>
    /\ reads = {}

Next ==
    \/ OpenReport
    \/ ScanBlock
    \/ ReadFuncName
    \/ ReadMemoryEffect
    \/ ReadKeyword
    \/ ReadArg
    \/ InsertKernelInfo
    \/ GetNodes
    \/ BeginNode
    \/ PrintArg
    \/ EndNode
    \/ Return

Spec == Init /\ [][Next]_vars

-----------------------------------------------------------------------------
(* What the claims speak of *)

\* the constructor has returned: analyzeGraph holds the parser and its table
TableAvailable == pc \in {"constructed", "node", "args", "done", "unknown_abort", "fault"}

\* the annotation pass has begun: the nodes were asked for
AnnotationStarted == pc \in {"node", "args", "done", "unknown_abort", "fault"}

\* the report follows the format: only header and Arg lines, a header
\* first, and the whole text there (the last line break may be missing)
WellFormed(r) ==
    /\ \A k \in 1..Len(r.lines) : r.lines[k].kind \in {"hdr", "arg"}
    /\ r.lines # <<>> => r.lines[1].kind = "hdr"
    /\ r.keep >= Len(Render(r.lines)) - 1

\* the blocks a well-formed report was written from, in order
RECURSIVE BlocksOf(_, _)
BlocksOf(ls, acc) ==
    IF ls = <<>> THEN acc
    ELSE LET l == Head(ls) IN
         IF l.kind = "hdr"
         THEN BlocksOf(Tail(ls),
                       Append(acc, [funcName |-> l.name, memoryEffect |-> l.tag,
                                    ptrArgInfos |-> <<>>]))
         ELSE BlocksOf(Tail(ls),
                       [acc EXCEPT ![Len(acc)].ptrArgInfos =
                            Append(@, [index |-> l.index, effect |-> l.tag])])

Blocks == BlocksOf(report.lines, <<>>)

DistinctNames(bs) ==
    \A a, b \in 1..Len(bs) : a # b => bs[a].funcName # bs[b].funcName

\* C1: a report that cannot be opened never yields a completed parser, and
\* the annotation pass over the nodes is never started.
C1_OpenFailureStopsBeforeAnnotation ==
    ~fileExists => ~TableAvailable /\ ~AnnotationStarted

C3_LastWriteWins ==
    (pc = "constructed" /\ fileExists /\ WellFormed(report)) =>
        \A a, b \in 1..Len(Blocks) :
            (a < b /\ Blocks[a].funcName = Blocks[b].funcName
                   /\ \A c \in (b + 1)..Len(Blocks) : Blocks[c].funcName # Blocks[b].funcName)
            => /\ Blocks[b].funcName \in DOMAIN funcNameToKernelInfoMap
               /\ funcNameToKernelInfoMap[Blocks[b].funcName] = Blocks[b]

\* C3 witness: two blocks of one name, the first with an Arg line and the
\* second with another tag and none; the entry has no pair
C3_Witness ==
    /\ pc = "constructed" /\ fileExists /\ WellFormed(report)
    /\ Len(Blocks) = 2
    /\ Blocks[1].funcName = Blocks[2].funcName
    /\ Blocks[1].memoryEffect # Blocks[2].memoryEffect
    /\ Blocks[1].ptrArgInfos # <<>> /\ Blocks[2].ptrArgInfos = <<>>
    /\ funcNameToKernelInfoMap[Blocks[2].funcName].ptrArgInfos = <<>>

\* the token about to be read in the keyword position is there, the stream
\* stays readable, and it is neither "Arg" nor "Function"
BadKeywordAhead ==
    /\ pc = "keyword"
    /\ LET q == SkipWs(file, in.pos) IN
       /\ Good(in)
       /\ q <= Len(file)
       /\ SubSeq(file, q, TokenEnd(file, q) - 1) \notin {Str_Arg, Str_Function}

\* C4: a token in the keyword position that is neither "Arg" nor "Function"
\* makes the parse fail: the process aborts there, with no node enumerated
\* or annotated, and does nothing more; the table, earlier blocks' entries
\* included, never becomes available.
C4_BadKeywordAborts ==
    [][ /\ BadKeywordAhead => pc' = "parse_abort"
        /\ pc' = "parse_abort" => (nodes' = <<>> /\ out' = <<>> /\ reads' = {})
        /\ pc # "parse_abort" ]_vars

\* C4 witness: the abort came after an earlier block had been entered
C4_Witness ==
    pc = "parse_abort" /\ funcNameToKernelInfoMap # <<>>

\* C5: a parse never completes with an entry whose memory-effect tag or
\* whose argument effect tag is empty.
C5_NoEmptyTagOnCompletion ==
    pc = "constructed" =>
        \A n \in DOMAIN funcNameToKernelInfoMap :
            /\ funcNameToKernelInfoMap[n].memoryEffect # <<>>
            /\ \A k \in 1..Len(funcNameToKernelInfoMap[n].ptrArgInfos) :
                  funcNameToKernelInfoMap[n].ptrArgInfos[k].effect # <<>>

\* the lines o, without the values read from the slots
ShapeOf(o) ==
    [q \in 1..Len(o) |->
        IF o[q].kind = "arg"
        THEN [kind |-> "arg", index |-> o[q].index, effect |-> o[q].effect]
        ELSE o[q]]

OutShape == ShapeOf(out)

\* the block of node ordinal m of the nodes ns under the table t, without
\* the values: its ordinal, the name of its entry, and one line per pair of
\* the entry, in the stored order
BlockShape(m, ns, t) ==
    LET info == t[ns[m + 1].func] IN
    <<OutNode(m), OutFunc(info.funcName)>>
        \o [q \in 1..Len(info.ptrArgInfos) |->
               [kind |-> "arg", index |-> info.ptrArgInfos[q].index,
                effect |-> info.ptrArgInfos[q].effect]]

\* the blocks of the nodes of ordinal 0..k-1, concatenated
RECURSIVE BlocksShape(_, _, _)
BlocksShape(k, ns, t) ==
    IF k = 0 THEN <<>> ELSE BlocksShape(k - 1, ns, t) \o BlockShape(k - 1, ns, t)

AllNamesPresent ==
    \A m \in 1..Len(nodes) : nodes[m].func \in DOMAIN funcNameToKernelInfoMap

\* the process has ended, one way or another
Ended == pc \in {"done", "unknown_abort", "fault", "parse_abort", "terminated"}

\* C6 (as amended): for a pair whose index names a pointer argument of the
\* node, the value reported is the pointer read from the slot (one
\* dereference of the slot: the address the argument holds), with the
\* pair's index and effect.
C6_ValueIsThePointerArgument ==
    \A q \in 1..Len(out) :
        (out[q].kind = "arg" /\ IsPointerSlot(out[q].index))
            => out[q].value = ArgStorage(out[q].index).value

\* C6 witness: the line for the pair (3, "RO") carries the address in x
C6_Witness ==
    \E q \in 1..Len(out) :
        out[q] = OutArg(3, Str_RO, Address(1))

\* C6 (as claimed): the value reported is the integer reached by
\* dereferencing the slot twice.
C6_ValueIsTheInteger ==
    \A q \in 1..Len(out) :
        (out[q].kind = "arg" /\ IsPointerSlot(out[q].index))
            => out[q].value = Pointee(ArgStorage(out[q].index).value)

\* C7: when every node's name is in the table, the pass emits one block
\* per node, in the order the nodes were returned, each with the pairs of
\* its entry in the stored order.
C7_OneBlockPerNodeInOrder ==
    (AnnotationStarted /\ Ended /\ AllNamesPresent)
        => OutShape = BlocksShape(Len(nodes), nodes, funcNameToKernelInfoMap)

\* C8: a node whose name is not in the table ends the pass with the error
\* naming the kernel; no slot of that node was read and no argument line
\* written for it, the blocks of the nodes before it are complete, and
\* nothing happens after.
C8_UnknownKernelAborts ==
    [][ /\ (pc = "node" /\ i < Len(nodes)
               /\ nodes[i + 1].func \notin DOMAIN funcNameToKernelInfoMap)
            => pc' = "unknown_abort"
        /\ pc' = "unknown_abort" =>
              /\ err' = <<nodes'[i' + 1].func>>
              /\ \A r \in reads' : r[1] < i'
              /\ ShapeOf(out') = BlocksShape(i', nodes', funcNameToKernelInfoMap')
                                     \o <<OutNode(i')>>
              /\ funcNameToKernelInfoMap' = funcNameToKernelInfoMap
        /\ pc # "unknown_abort" ]_vars

\* C8 witness: the abort came at the second node, after a first block with
\* an argument line
C8_Witness ==
    /\ pc = "unknown_abort"
    /\ i = 1
    /\ \E q \in 1..Len(out) : out[q].kind = "arg"

\* C9: no slot is read at an index outside the node's parameter array.
C9_NoReadOutsideTheParameters ==
    \A r \in reads : r[2] \in 0..(NumParams - 1)

\* the token after the '@' just found, as the stream will deliver it
NameTokenAhead ==
    LET q == SkipWs(file, in.pos) IN
    IF Good(in) /\ q <= Len(file)
    THEN SubSeq(file, q, TokenEnd(file, q) - 1)
    ELSE <<>>

\* C10: a token after '@' of fewer than 2 characters (none at all when '@'
\* ends the input) makes the parse fail: the process terminates there, no
\* entry is inserted, and nothing happens after.
C10_ShortNameFails ==
    [][ /\ (pc = "name" /\ Len(NameTokenAhead) < 2)
            => (pc' = "terminated"
                /\ funcNameToKernelInfoMap' = funcNameToKernelInfoMap)
        /\ pc # "terminated" ]_vars

\* C10 witness: the parse ended on an '@' with nothing after it
C10_Witness ==
    pc = "terminated" /\ in.fail /\ in.eof

-----------------------------------------------------------------------------
(* The claims about the Arg line, the end of the report, the indices, the  *)
(* table during annotation, and termination                                *)

\* the position after n whitespace-delimited tokens from position p on
RECURSIVE AfterTokens(_, _, _)
AfterTokens(text, p, n) ==
    IF n = 0 THEN p
    ELSE AfterTokens(text, TokenEnd(text, SkipWs(text, p)), n - 1)

\* the tokens that start at position p or after it
RECURSIVE TokensFrom(_, _)
TokensFrom(text, p) ==
    LET q == SkipWs(text, p) IN
    IF q > Len(text) THEN <<>>
    ELSE <<SubSeq(text, q, TokenEnd(text, q) - 1)>> \o TokensFrom(text, TokenEnd(text, q))

\* "Arg" was just read, " #" and a number follow, and at least six tokens
\* come after the number
ArgLineAhead ==
    /\ pc = "arg"
    /\ Good(in)
    /\ in.pos + 2 <= Len(file)
    /\ file[in.pos] = " " /\ file[in.pos + 1] = "#" /\ IsDigit(file[in.pos + 2])
    /\ Len(TokensFrom(file, DigitsEnd(file, in.pos + 2))) >= 6

\* C11 (as amended): after the index of an Arg line the parser consumes
\* exactly five tokens, the third of them kept as the effect tag; the token
\* next examined as a keyword is the sixth after the index.
C11_FiveTokensAfterIndex ==
    [][ ArgLineAhead =>
          LET e == DigitsEnd(file, in.pos + 2) IN
          /\ in'.pos = AfterTokens(file, e, 5)
          /\ kernelInfo'.ptrArgInfos[Len(kernelInfo'.ptrArgInfos)].effect
                = TokensFrom(file, e)[3] ]_vars

\* C11 witness: an Arg line was read and the next token, the sixth after
\* its index, is a keyword
C11_Witness ==
    /\ pc = "keyword"
    /\ kernelInfo.ptrArgInfos # <<>>
    /\ Good(in)
    /\ TokensFrom(file, in.pos) # <<>>
    /\ TokensFrom(file, in.pos)[1] \in {Str_Arg, Str_Function}

\* C11 (as claimed): after the index the parser consumes exactly six
\* tokens; the token next examined as a keyword is the seventh.
C11_SixTokensAfterIndex ==
    [][ ArgLineAhead =>
          in'.pos = AfterTokens(file, DigitsEnd(file, in.pos + 2), 6) ]_vars

\* no '@' is left between the read position and the end of the input
NoAtAhead == \A p \in 1..Len(file) : p >= in.pos => file[p] # "@"

\* C12: when no '@' remains between the read position and the end of the
\* input, the block loop is left normally: the constructor completes, no
\* error is raised, no entry is added and the entries inserted are kept.
C12_NoAtEndsTheParse ==
    [][ (pc = "outer" /\ fileExists /\ NoAtAhead) =>
          /\ pc' = "constructed"
          /\ funcNameToKernelInfoMap' = funcNameToKernelInfoMap
          /\ err' = err ]_vars

\* C12 witness: a block closed by "Function" was inserted, the text after
\* that token held no '@', and the parse completed with the entry kept
C12_Witness ==
    /\ pc = "constructed" /\ fileExists
    /\ file # <<>> /\ file[Len(file)] = "("
    /\ DOMAIN funcNameToKernelInfoMap = {Str_foo}
    /\ funcNameToKernelInfoMap[Str_foo].ptrArgInfos # <<>>

\* the indices of a KernelInfo are pairwise distinct
DistinctIndices(info) ==
    \A a, b \in 1..Len(info.ptrArgInfos) :
        a # b => info.ptrArgInfos[a].index # info.ptrArgInfos[b].index

\* C13: in every table of a completed parse, the argument indices within
\* one KernelInfo are pairwise distinct, whatever the report.
C13_IndicesDistinct ==
    pc = "constructed" =>
        \A k \in DOMAIN funcNameToKernelInfoMap :
            DistinctIndices(funcNameToKernelInfoMap[k])

\* the digits an Arg line writes as its index
WrittenDigits(l) == IF l.kind = "argdigits" THEN l.name ELSE Dec(l.index)

\* C14: the index stored for an Arg line is non-negative and is the
\* unsigned integer the line writes, also for written values at or above
\* 2^31 and past the unsigned type.
C14_IndexAsWritten ==
    ( /\ pc = "constructed" /\ fileExists
      /\ Len(report.lines) = 2
      /\ report.keep = Len(Render(report.lines))
      /\ report.lines[1].kind = "hdr"
      /\ report.lines[2].kind \in {"arg", "argdigits"} ) =>
        LET info == funcNameToKernelInfoMap[report.lines[1].name] IN
        /\ Len(info.ptrArgInfos) = 1
        /\ info.ptrArgInfos[1].index >= 0
        /\ Dec(info.ptrArgInfos[1].index) = WrittenDigits(report.lines[2])

\* C15: the annotation pass leaves the table as the parser built it: no
\* step from the end of construction on changes its keys or its entries,
\* and looking up a node's name, present or absent, inserts nothing.
C15_TableReadOnly ==
    [][ (pc = "constructed" \/ AnnotationStarted) =>
          funcNameToKernelInfoMap' = funcNameToKernelInfoMap ]_vars

\* C15 witness: the pass looked up a name that is in the table and then a
\* name that is not, and stopped there with the table's keys as they were
C15_Witness ==
    /\ pc = "unknown_abort"
    /\ Len(nodes) = 2
    /\ nodes[1].func \in DOMAIN funcNameToKernelInfoMap
    /\ nodes[2].func \notin DOMAIN funcNameToKernelInfoMap
    /\ \E q \in 1..Len(out) : out[q] = OutFunc(nodes[1].func)

\* the constructor is still running
InParser == pc \in {"start", "outer", "name", "effect", "keyword", "arg", "insert"}

\* where a step of the constructor leaves it
AfterParserStep ==
    {"outer", "name", "effect", "keyword", "arg", "insert",
     "constructed", "parse_abort", "terminated"}

\* the constructor moves on.  While it runs, exactly one of OpenReport,
\* ScanBlock, ReadFuncName, ReadMemoryEffect, ReadKeyword, ReadArg and
\* InsertKernelInfo can be taken (each is guarded by pc alone), and each
\* changes pc: the steps of Next that are ParserStep steps changing pc are
\* those seven, and ParserStep is enabled exactly while one of them is.
ParserStep == InParser /\ pc' \in AfterParserStep

\* the program running: the constructor is sequential code, a step that
\* can be taken is taken
FairSpec == Init /\ [][Next]_vars /\ WF_pc(ParserStep)

\* what a step of the constructor's loops does to the stream: the read
\* position never goes back; an '@'-scan that goes on to a block, and a
\* keyword read that goes on to an Arg line, consumed at least one
\* character; with a failed stream the Arg loop and then the block loop
\* are left
ParserProgress ==
    /\ (pc \in {"outer", "name", "effect", "keyword", "arg"} /\ pc' # "constructed")
          => in'.pos >= in.pos
    /\ (pc \in {"name", "effect", "keyword", "arg"} /\ ~Ok(in)) => ~Ok(in')
    /\ pc = "outer" => \/ pc' = "name" /\ Ok(in') /\ in'.pos > in.pos
                       \/ pc' = "constructed" /\ ~(Ok(in) /\ in.pos <= Len(file) /\ ~NoAtAhead)
    /\ pc = "keyword" => \/ pc' \in {"arg", "parse_abort"} /\ Ok(in') /\ in'.pos > in.pos
                         \/ pc' = "insert"
    /\ (pc = "keyword" /\ ~Ok(in)) => pc' = "insert"
    /\ (pc = "insert" /\ ~Ok(in)) => pc' = "outer" /\ ~Ok(in')

\* C16: the constructor terminates on every input: every iteration of its
\* loops consumes input or sees the failed stream and leaves, so that it
\* ends with the table completed, with abort() or with the exception.
C16_ParserTerminates ==
    /\ [][InParser => ParserProgress]_vars
    /\ <>(~InParser)

\* C16 witness: the input ended in the middle of an Arg line, the reads of
\* the rest of the line failed (the effect stayed empty), and the
\* constructor completed
C16_Witness ==
    /\ pc = "constructed" /\ fileExists
    /\ file # <<>> /\ file[Len(file)] = "#"
    /\ \E k \in DOMAIN funcNameToKernelInfoMap :
          LET a == funcNameToKernelInfoMap[k].ptrArgInfos IN
          a # <<>> /\ a[Len(a)].effect = <<>>

=============================================================================
